---- MODULE Spec2Model ----
(***************************************************************************)
(* Job orchestration of the product video generator: the job table, the   *)
(* keyframe and video registries, their JSON snapshot, the local files,   *)
(* and the background pipeline process_video_generation with the adapters  *)
(* it runs in worker threads (generate_video_with_keyframes,               *)
(* download_from_s3, process_video, upload_to_s3).                         *)
(*                                                                         *)
(* Coroutine code between two awaits is one atomic action (a single event  *)
(* loop runs all handlers and pipelines); each adapter call runs in a      *)
(* worker thread and is its own action.  Timestamps (created_at,           *)
(* updated_at, uploaded_at, last_updated) are left out of the records.     *)
(***************************************************************************)
EXTENDS Integers, FiniteSets, Sequences, TLC

\* ---- bounds
MaxJobs == 2
MaxUploads == 2
\* queries of a monitoring loop that may be answered with a non-terminal status
MaxPolls == 4
\* configs in the list a batch is called with
MaxConfigs == 2

\* ---- values
None == "<None>"
Products == {"watch_01", "laptop"}
Prompts == {"slow rotation"}
S3Bucket == "bucket"
LegacyProduct == "laptop"

\* uuid4 values available to create_job; Short is job_id[:8], which two
\* distinct uuids may share (1 and 2 do, 3 does not).  uuid4 values carry no
\* order, so create_job hands them out in increasing order starting with 1:
\* two jobs get ids that share their prefix (1, 2) or do not (1, 3).
UUIDs == 1 .. (MaxJobs + 1)
Short(job_id) == (job_id + 1) \div 2

\* variant: uuid4 may return an id a job already has
FreshUUID_Any(db, job_id) == job_id \in UUIDs

\* uuid4 returns an id no job has
FreshUUID(db, job_id) ==
    IF DOMAIN db = {} THEN job_id = 1 ELSE \A k \in DOMAIN db : k < job_id

\* Python truthiness of an Optional[str]
Truthy(x) == x \notin {None, ""}

PENDING == "pending"
UPLOADING == "uploading"
GENERATING == "generating"
DOWNLOADING == "downloading"
PROCESSING == "processing"
COMPLETED == "completed"
FAILED == "failed"
JobStatus == {PENDING, UPLOADING, GENERATING, DOWNLOADING, PROCESSING, COMPLETED, FAILED}

\* statuses and failure reasons of the external asynchronous invocation
InvokeStatuses == {"InProgress", "Completed", "Failed"}
FailureMessages == {"Unknown error", "content moderation"}
ClientError == "ThrottlingException"
NoURIError == "Video generation failed - no S3 URI returned"
\* the statuses get_async_invoke may answer with; the loop knows "Completed"
\* and "Failed" and treats every other string alike
QueryStatuses == InvokeStatuses \cup {"Pending"}
TerminalStatuses == {"Completed", "Failed"}

VARIABLES
    jobs_db,       \* job_id -> job record
    videos_db,     \* video_id -> video record
    keyframes_db,  \* product_name -> keyframe record
    disk,          \* content of database.json
    files,         \* path -> content, the files that exist
    pc,            \* job_id -> position of the job's background task
    task,          \* job_id -> arguments of the scheduled task
    ret,           \* job_id -> result of the adapter call the task is awaiting or reading
    gen,           \* job_id -> locals of a running generate_video_with_keyframes
    response,      \* what the step just taken returned to an HTTP caller
    uploads,       \* number of keyframe uploads served
    deleted,       \* video ids removed by delete_video
    monitor,       \* locals and trace of a monitoring loop followed query by query
    batch          \* locals and trace of a run of batch_generate_with_keyframes

vars == <<jobs_db, videos_db, keyframes_db, disk, files, pc, task, ret, gen,
          response, uploads, deleted, monitor, batch>>

\* ---- dictionaries
Empty == <<>>
Put(d, k, v) == [x \in DOMAIN d \cup {k} |-> IF x = k THEN v ELSE d[x]]
Del(d, k) == [x \in DOMAIN d \ {k} |-> d[x]]

\* ---- paths
StartFramePath(n) == "keyframes/" \o ToString(n) \o "_a.jpg"
EndFramePath(n) == "keyframes/" \o ToString(n) \o "_b.jpg"
VideoBaseName(product_name, job_id) == product_name \o "_" \o ToString(Short(job_id))
OutputPath(product_name, job_id) == "videos/" \o VideoBaseName(product_name, job_id) \o ".mp4"
FinalVideoPath(product_name, job_id) ==
    "videos/" \o VideoBaseName(product_name, job_id) \o "_final.mp4"
GeneratedURI(product_name) == "s3://" \o S3Bucket \o "/product-videos/" \o product_name \o "/"
FinalS3URI(product_name, job_id) ==
    "s3://" \o S3Bucket \o "/product-videos/" \o product_name \o "/"
        \o VideoBaseName(product_name, job_id) \o "_final.mp4"
VideoURL(job_id) == "/api/videos/download/" \o ToString(job_id)
\* the intermediate files of process_video; list.txt is in the working
\* directory and has the same name for every video
ReversedPath(product_name, job_id) ==
    "videos/" \o VideoBaseName(product_name, job_id) \o "_reversed.mp4"
CombinedPath(product_name, job_id) ==
    "videos/" \o VideoBaseName(product_name, job_id) \o "_combined.mp4"
ListFile == "list.txt"

\* ---- persistence
save_database(jobs, videos, keyframes) ==
    [jobs |-> jobs, videos |-> videos, keyframes |-> keyframes]

\* ---- responses
NoResponse == [op |-> "background", status |-> 0]
Response(op, status) == [op |-> op, status |-> status]

NoResult == [kind |-> "none", val |-> None]
Returned(v) == [kind |-> "return", val |-> v]
Raised(kind, msg) == [kind |-> kind, val |-> msg]
NoGen ==
    [start_frame_path |-> None, end_frame_path |-> None,
     last_status |-> None, failure |-> None]
NoTask ==
    [product_name |-> None, prompt |-> None,
     start_frame_path |-> None, end_frame_path |-> None]

\* no monitoring loop is being followed
NoMonitor ==
    [pc |-> "idle", remote |-> None, last_status |-> None,
     status_response |-> [status |-> None, s3Uri |-> None, failureMessage |-> None],
     observed |-> <<>>, notified |-> <<>>, sleeps |-> 0, result |-> NoResult,
     abandoned |-> FALSE]

\* a key a config of the batch does not have
Missing == "<missing>"

\* no batch is running
NoBatch ==
    [pc |-> "idle", configs |-> <<>>, i |-> 0, results |-> <<>>,
     invoked |-> {}, raised |-> {}, error |-> None]

\* the keyframes a database file written by an earlier version may hold
LoadedKeyframes ==
    { Empty,
      Put(Empty, LegacyProduct, [start_frame |-> None, end_frame |-> None]) }

Init ==
    /\ jobs_db = Empty
    /\ videos_db = Empty
    /\ keyframes_db \in LoadedKeyframes
    /\ disk = save_database(jobs_db, videos_db, keyframes_db)
    /\ files = Empty
    /\ pc = [j \in UUIDs |-> "none"]
    /\ task = [j \in UUIDs |-> NoTask]
    /\ ret = [j \in UUIDs |-> NoResult]
    /\ gen = [j \in UUIDs |-> NoGen]
    /\ response = NoResponse
    /\ uploads = 0
    /\ deleted = {}
    /\ monitor = NoMonitor
    /\ batch = NoBatch

\* The event loop is between two awaits of every coroutine.
LoopFree == \A j \in UUIDs : pc[j] # "publish"

\* ---- job store (api_server.py)

\* variant: the new record already carries a result reference
NewJob_WithUrl(job_id, product_name) ==
    [job_id |-> job_id, product_name |-> product_name, status |-> PENDING,
     progress |-> 0, message |-> "Job created", video_url |-> VideoURL(job_id),
     error |-> None]

\* the record create_job inserts
NewJob(job_id, product_name) ==
    [job_id |-> job_id, product_name |-> product_name, status |-> PENDING,
     progress |-> 0, message |-> "Job created", video_url |-> None, error |-> None]

\* variant: the update is written to every record of the table
update_job_AllRecords(db, job_id, status, progress, message, error) ==
    IF job_id \in DOMAIN db
    THEN [k \in DOMAIN db |->
            [db[k] EXCEPT !.status = status, !.progress = progress, !.message = message,
                          !.error = IF Truthy(error) THEN error ELSE @]]
    ELSE db

\* update_job on the job table: a no-op for an unknown id, and error is
\* assigned only when it is truthy
update_job(db, job_id, status, progress, message, error) ==
    IF job_id \in DOMAIN db
    THEN [db EXCEPT ![job_id] =
            [@ EXCEPT !.status = status, !.progress = progress, !.message = message,
                      !.error = IF Truthy(error) THEN error ELSE @]]
    ELSE db

\* variant: the snapshot is written whether or not the id is known
UpdateJob_AlwaysSaves(db, job_id, status, progress, message, error) ==
    /\ jobs_db' = update_job(db, job_id, status, progress, message, error)
    /\ disk' = save_database(jobs_db', videos_db, keyframes_db)

\* update_job with the snapshot it writes; the videos are left alone
UpdateJob(db, job_id, status, progress, message, error) ==
    /\ jobs_db' = update_job(db, job_id, status, progress, message, error)
    /\ disk' = IF job_id \in DOMAIN db
               THEN save_database(jobs_db', videos_db, keyframes_db)
               ELSE disk

\* the except clause of process_video_generation
ErrorMessage(error_msg) == "Error: " \o error_msg
\* variant: the failure keeps the progress reached
FailJob_KeepsProgress(job_id, error_msg) ==
    UpdateJob(jobs_db, job_id, FAILED, jobs_db[job_id].progress,
              ErrorMessage(error_msg), error_msg)
FailJob(job_id, error_msg) ==
    UpdateJob(jobs_db, job_id, FAILED, 0, ErrorMessage(error_msg), error_msg)

\* ---- HTTP handlers (api_server.py)

\* the entry upload_keyframes stores for its n-th upload
KeyframeEntry(n, has_end) ==
    [start_frame |-> StartFramePath(n),
     end_frame |-> IF has_end THEN EndFramePath(n) ELSE None]

\* variant: an upload without end frame keeps the end frame of the entry it replaces
upload_keyframes_KeepsEnd(product_name, has_end) ==
    /\ LoopFree
    /\ uploads < MaxUploads
    /\ uploads' = uploads + 1
    /\ files' = IF has_end
                THEN Put(Put(files, StartFramePath(uploads'), 0), EndFramePath(uploads'), 0)
                ELSE Put(files, StartFramePath(uploads'), 0)
    /\ keyframes_db' = Put(keyframes_db, product_name,
            IF ~has_end /\ product_name \in DOMAIN keyframes_db
            THEN [KeyframeEntry(uploads', has_end) EXCEPT
                    !.end_frame = keyframes_db[product_name].end_frame]
            ELSE KeyframeEntry(uploads', has_end))
    /\ disk' = save_database(jobs_db, videos_db, keyframes_db')
    /\ response' = Response("upload_keyframes", 200)
    /\ UNCHANGED <<jobs_db, videos_db, pc, task, ret, gen, deleted, monitor, batch>>

\* upload_keyframes for image files of an allowed type (lines 318-359)
upload_keyframes(product_name, has_end) ==
    /\ LoopFree
    /\ uploads < MaxUploads
    /\ uploads' = uploads + 1
    /\ files' = IF has_end
                THEN Put(Put(files, StartFramePath(uploads'), 0), EndFramePath(uploads'), 0)
                ELSE Put(files, StartFramePath(uploads'), 0)
    /\ keyframes_db' = Put(keyframes_db, product_name, KeyframeEntry(uploads', has_end))
    /\ disk' = save_database(jobs_db, videos_db, keyframes_db')
    /\ response' = Response("upload_keyframes", 200)
    /\ UNCHANGED <<jobs_db, videos_db, pc, task, ret, gen, deleted, monitor, batch>>

\* variant: the entry is not checked for a start frame
KeyframesFound_EntryOnly(keyframes, product_name) == product_name \in DOMAIN keyframes

\* the keyframe lookup of generate_video: the product has an entry with a start frame
KeyframesFound(keyframes, product_name) ==
    /\ product_name \in DOMAIN keyframes
    /\ Truthy(keyframes[product_name].start_frame)

generate_video(product_name, prompt, job_id) ==
    /\ LoopFree
    /\ IF ~KeyframesFound(keyframes_db, product_name)
       THEN /\ response' = Response("generate_video", 400)
            /\ UNCHANGED <<jobs_db, disk, pc, task>>
       ELSE /\ Cardinality(DOMAIN jobs_db) < MaxJobs
            /\ FreshUUID(jobs_db, job_id)
            /\ jobs_db' = Put(jobs_db, job_id, NewJob(job_id, product_name))
            /\ disk' = save_database(jobs_db', videos_db, keyframes_db)
            /\ pc' = [pc EXCEPT ![job_id] = "scheduled"]
            /\ task' = [task EXCEPT ![job_id] =
                    [product_name |-> product_name, prompt |-> prompt,
                     start_frame_path |-> keyframes_db[product_name].start_frame,
                     end_frame_path |-> keyframes_db[product_name].end_frame]]
            /\ response' = Response("generate_video", 200)
    /\ UNCHANGED <<videos_db, keyframes_db, files, ret, gen, uploads, deleted, monitor, batch>>

\* variant: only the original video is unlinked, the final video stays
delete_video_KeepsFinal(video_id, fail_at) ==
    /\ LoopFree
    /\ IF video_id \notin DOMAIN videos_db
       THEN /\ fail_at = 0
            /\ response' = Response("delete_video", 404)
            /\ UNCHANGED <<videos_db, disk, files, deleted>>
       ELSE LET info == videos_db[video_id]
                p1 == info.original_video_path
            IN  /\ videos_db' = Del(videos_db, video_id)
                /\ disk' = save_database(jobs_db, videos_db', keyframes_db)
                /\ deleted' = deleted \cup {video_id}
                /\ fail_at = 1 => p1 \in DOMAIN files
                /\ fail_at # 2
                /\ files' = IF fail_at = 0 THEN Del(files, p1) ELSE files
                /\ response' = Response("delete_video", IF fail_at = 0 THEN 200 ELSE 500)
    /\ UNCHANGED <<jobs_db, keyframes_db, pc, task, ret, gen, uploads, monitor, batch>>

\* delete_video; fail_at is the file (1 or 2) whose unlink raises, 0 for none
delete_video(video_id, fail_at) ==
    /\ LoopFree
    /\ IF video_id \notin DOMAIN videos_db
       THEN /\ fail_at = 0
            /\ response' = Response("delete_video", 404)
            /\ UNCHANGED <<videos_db, disk, files, deleted>>
       ELSE LET info == videos_db[video_id]
                p1 == info.original_video_path
                p2 == info.final_video_path
            IN  /\ videos_db' = Del(videos_db, video_id)
                /\ disk' = save_database(jobs_db, videos_db', keyframes_db)
                /\ deleted' = deleted \cup {video_id}
                /\ fail_at = 1 => p1 \in DOMAIN files
                /\ fail_at = 2 => p2 \in DOMAIN files
                /\ files' = CASE fail_at = 0 -> Del(Del(files, p1), p2)
                              [] fail_at = 1 -> files
                              [] fail_at = 2 -> Del(files, p1)
                /\ response' = Response("delete_video", IF fail_at = 0 THEN 200 ELSE 500)
    /\ UNCHANGED <<jobs_db, keyframes_db, pc, task, ret, gen, uploads, monitor, batch>>

\* ---- process_video_generation (api_server.py), one action per stretch
\* ---- between two awaits, and the adapters it awaits in worker threads

\* lines 204-223: the task starts and hands generation to a thread
StartGeneration(j) ==
    /\ pc[j] = "scheduled"
    /\ LoopFree
    /\ UpdateJob(jobs_db, j, GENERATING, 10, "Generating video with AWS Bedrock...", None)
    /\ pc' = [pc EXCEPT ![j] = "generate"]
    /\ response' = NoResponse
    /\ UNCHANGED <<videos_db, keyframes_db, files, task, ret, gen, uploads, deleted, monitor,
                   batch>>

\* generate_video_with_keyframes up to start_async_invoke: a missing keyframe
\* file or an exception of the client ends the call with None
SubmitInvocation(j) ==
    /\ pc[j] = "generate"
    /\ LET start == task[j].start_frame_path
           end == task[j].end_frame_path
           missing == \/ start \notin DOMAIN files
                      \/ Truthy(end) /\ end \notin DOMAIN files
       IN  \E accepted \in BOOLEAN :
            /\ missing => ~accepted
            /\ IF accepted
               THEN /\ pc' = [pc EXCEPT ![j] = "poll"]
                    /\ gen' = [gen EXCEPT ![j].start_frame_path = start,
                                          ![j].end_frame_path = end]
                    /\ UNCHANGED ret
               ELSE /\ pc' = [pc EXCEPT ![j] = "generated"]
                    /\ ret' = [ret EXCEPT ![j] = Returned(None)]
                    /\ gen' = [gen EXCEPT ![j].start_frame_path = start,
                                          ![j].end_frame_path = end,
                                          ![j].failure =
                                  IF missing THEN "frame not found" ELSE ClientError]
    /\ response' = NoResponse
    /\ UNCHANGED <<jobs_db, videos_db, keyframes_db, disk, files, task, uploads, deleted, monitor,
                   batch>>

\* one iteration of the monitoring loop: get_async_invoke answers with a
\* status, or raises
PollInvocation(j) ==
    /\ pc[j] = "poll"
    /\ \E current_status \in InvokeStatuses \cup {"raise"}, failureMessage \in FailureMessages :
        CASE current_status = "raise" ->
                /\ pc' = [pc EXCEPT ![j] = "generated"]
                /\ ret' = [ret EXCEPT ![j] = Returned(None)]
                /\ gen' = [gen EXCEPT ![j].failure = ClientError]
          [] current_status = "Completed" ->
                /\ pc' = [pc EXCEPT ![j] = "generated"]
                /\ ret' = [ret EXCEPT ![j] = Returned(GeneratedURI(task[j].product_name))]
                /\ gen' = [gen EXCEPT ![j].last_status = current_status]
          [] current_status = "Failed" ->
                /\ pc' = [pc EXCEPT ![j] = "generated"]
                /\ ret' = [ret EXCEPT ![j] = Returned(None)]
                /\ gen' = [gen EXCEPT ![j].last_status = current_status,
                                      ![j].failure = failureMessage]
          [] OTHER ->
                \* time.sleep(15), then the next query
                /\ gen' = [gen EXCEPT ![j].last_status = current_status]
                /\ UNCHANGED <<pc, ret>>
    /\ response' = NoResponse
    /\ UNCHANGED <<jobs_db, videos_db, keyframes_db, disk, files, task, uploads, deleted, monitor,
                   batch>>

\* lines 225-239: the generation call has returned
AfterGeneration(j) ==
    /\ pc[j] = "generated"
    /\ LoopFree
    /\ IF ~Truthy(ret[j].val)
       THEN /\ FailJob(j, NoURIError)
            /\ pc' = [pc EXCEPT ![j] = "done"]
       ELSE /\ UpdateJob(jobs_db, j, DOWNLOADING, 50,
                         "Video generated! Downloading from S3...", None)
            /\ pc' = [pc EXCEPT ![j] = "download"]
    /\ ret' = [ret EXCEPT ![j] = NoResult]
    /\ gen' = [gen EXCEPT ![j] = NoGen]
    /\ response' = NoResponse
    /\ UNCHANGED <<videos_db, keyframes_db, files, task, uploads, deleted, monitor, batch>>

\* download_from_s3: writes the local file, or catches its error and returns None
download_from_s3(j) ==
    /\ pc[j] = "download"
    /\ LET local_path == OutputPath(task[j].product_name, j)
       IN  \E ok \in BOOLEAN :
            IF ok
            THEN /\ files' = Put(files, local_path, j)
                 /\ ret' = [ret EXCEPT ![j] = Returned(local_path)]
            ELSE /\ ret' = [ret EXCEPT ![j] = Returned(None)]
                 /\ UNCHANGED files
    /\ pc' = [pc EXCEPT ![j] = "downloaded"]
    /\ response' = NoResponse
    /\ UNCHANGED <<jobs_db, videos_db, keyframes_db, disk, task, gen, uploads, deleted, monitor,
                   batch>>

\* variant: a download that returned None is tried again
AfterDownload_Retries(j) ==
    /\ pc[j] = "downloaded"
    /\ LoopFree
    /\ IF ret[j].val = None
       THEN /\ pc' = [pc EXCEPT ![j] = "download"]
            /\ UNCHANGED <<jobs_db, disk>>
       ELSE /\ UpdateJob(jobs_db, j, PROCESSING, 70, "Applying boomerang effect...", None)
            /\ pc' = [pc EXCEPT ![j] = "process"]
    /\ ret' = [ret EXCEPT ![j] = NoResult]
    /\ response' = NoResponse
    /\ UNCHANGED <<videos_db, keyframes_db, files, task, gen, uploads, deleted, monitor, batch>>

\* lines 241-246: the result of the download is not looked at
AfterDownload(j) ==
    /\ pc[j] = "downloaded"
    /\ LoopFree
    /\ UpdateJob(jobs_db, j, PROCESSING, 70, "Applying boomerang effect...", None)
    /\ pc' = [pc EXCEPT ![j] = "process"]
    /\ ret' = [ret EXCEPT ![j] = NoResult]
    /\ response' = NoResponse
    /\ UNCHANGED <<videos_db, keyframes_db, files, task, gen, uploads, deleted, monitor, batch>>

\* what process_video ends with when a filter step fails: sys.exit(1)
FilterFailure == Raised("SystemExit", "1")

\* process_video: FileNotFoundError when the input is missing; otherwise the
\* final file is built from the input, or a filter step fails
process_video(j) ==
    /\ pc[j] = "process"
    /\ LET input_file == OutputPath(task[j].product_name, j)
           final_file == FinalVideoPath(task[j].product_name, j)
       IN  IF input_file \notin DOMAIN files
           THEN /\ ret' = [ret EXCEPT ![j] =
                        Raised("FileNotFoundError", "Error: " \o input_file \o " not found")]
                /\ UNCHANGED files
           ELSE \E ok \in BOOLEAN :
                 IF ok
                 THEN /\ files' = Put(files, final_file, files[input_file])
                      /\ ret' = [ret EXCEPT ![j] = Returned(None)]
                 ELSE /\ ret' = [ret EXCEPT ![j] = FilterFailure]
                      /\ UNCHANGED files
    /\ pc' = [pc EXCEPT ![j] = "processed"]
    /\ response' = NoResponse
    /\ UNCHANGED <<jobs_db, videos_db, keyframes_db, disk, task, gen, uploads, deleted, monitor,
                   batch>>

\* the exceptions `except Exception` catches: SystemExit is not one of them
IsException(kind) == kind \in {"Exception", "FileNotFoundError"}

\* variant: the upload is started without marking it in the job record
MarkUploading_Skipped(j) == UNCHANGED <<jobs_db, disk>>

\* variant: the upload marker reports a progress below the one before it
MarkUploading_Progress60(j) ==
    UpdateJob(jobs_db, j, PROCESSING, 60, "Uploading final video to S3...", None)

\* variant: the upload marker uses the UPLOADING member of JobStatus
MarkUploading_Uploading(j) ==
    UpdateJob(jobs_db, j, UPLOADING, 90, "Uploading final video to S3...", None)

\* line 251: the progress marker before the upload
MarkUploading(j) ==
    UpdateJob(jobs_db, j, PROCESSING, 90, "Uploading final video to S3...", None)

\* lines 248-260: post-processing has returned or raised
AfterProcessing(j) ==
    /\ pc[j] = "processed"
    /\ LoopFree
    /\ CASE ret[j].kind = "return" ->
                /\ MarkUploading(j)
                /\ pc' = [pc EXCEPT ![j] = "upload"]
         [] IsException(ret[j].kind) ->
                /\ FailJob(j, ret[j].val)
                /\ pc' = [pc EXCEPT ![j] = "done"]
         [] OTHER ->
                \* the exception leaves the task; the job record is not touched
                /\ pc' = [pc EXCEPT ![j] = "escaped"]
                /\ UNCHANGED <<jobs_db, disk>>
    /\ ret' = [ret EXCEPT ![j] = NoResult]
    /\ response' = NoResponse
    /\ UNCHANGED <<videos_db, keyframes_db, files, task, gen, uploads, deleted, monitor, batch>>

\* upload_to_s3: the URI, or None when the local file is missing or the
\* upload raises
upload_to_s3(j) ==
    /\ pc[j] = "upload"
    /\ LET local_path == FinalVideoPath(task[j].product_name, j)
       IN  \E ok \in BOOLEAN :
            /\ local_path \notin DOMAIN files => ~ok
            /\ ret' = [ret EXCEPT ![j] =
                    IF ok THEN Returned(FinalS3URI(task[j].product_name, j))
                          ELSE Returned(None)]
    /\ pc' = [pc EXCEPT ![j] = "uploaded"]
    /\ response' = NoResponse
    /\ UNCHANGED <<jobs_db, videos_db, keyframes_db, disk, files, task, gen, uploads, deleted, monitor,
                   batch>>

\* variant: the job is completed and saved first, the result reference set after
CompleteJob_UrlAfterSave(j) ==
    /\ pc[j] = "uploaded"
    /\ LoopFree
    /\ LET updated == update_job(jobs_db, j, COMPLETED, 100,
                                 "Video processing completed!", None)
       IN  /\ disk' = save_database(updated, videos_db, keyframes_db)
           /\ jobs_db' = [updated EXCEPT ![j].video_url = VideoURL(j)]
    /\ pc' = [pc EXCEPT ![j] = "publish"]
    /\ response' = NoResponse
    /\ UNCHANGED <<videos_db, keyframes_db, files, task, ret, gen, uploads, deleted, monitor,
                   batch>>

\* variant: the result reference is set and the job is left PROCESSING
CompleteJob_KeepsStatus(j) ==
    /\ pc[j] = "uploaded"
    /\ LoopFree
    /\ UpdateJob([jobs_db EXCEPT ![j].video_url = VideoURL(j)], j, PROCESSING, 100,
                 "Video processing completed!", None)
    /\ pc' = [pc EXCEPT ![j] = "publish"]
    /\ response' = NoResponse
    /\ UNCHANGED <<videos_db, keyframes_db, files, task, ret, gen, uploads, deleted, monitor,
                   batch>>

\* lines 262-264: the result reference is set and the job completed
CompleteJob(j) ==
    /\ pc[j] = "uploaded"
    /\ LoopFree
    /\ UpdateJob([jobs_db EXCEPT ![j].video_url = VideoURL(j)], j, COMPLETED, 100,
                 "Video processing completed!", None)
    /\ pc' = [pc EXCEPT ![j] = "publish"]
    /\ response' = NoResponse
    /\ UNCHANGED <<videos_db, keyframes_db, files, task, ret, gen, uploads, deleted, monitor,
                   batch>>

\* variant: the record stores the local path of the final video as its S3 URI
VideoInfo_LocalPath(j) ==
    [video_id |-> j, product_name |-> task[j].product_name, prompt |-> task[j].prompt,
     status |-> "completed",
     final_video_path |-> FinalVideoPath(task[j].product_name, j),
     original_video_path |-> OutputPath(task[j].product_name, j),
     start_keyframe |-> task[j].start_frame_path,
     end_keyframe |-> task[j].end_frame_path,
     job_id |-> j, s3_uri |-> FinalVideoPath(task[j].product_name, j)]

\* variant: the record takes the keyframe paths from the registry when it is stored
VideoInfo_CurrentKeyframes(j) ==
    [video_id |-> j, product_name |-> task[j].product_name, prompt |-> task[j].prompt,
     status |-> "completed",
     final_video_path |-> FinalVideoPath(task[j].product_name, j),
     original_video_path |-> OutputPath(task[j].product_name, j),
     start_keyframe |-> keyframes_db[task[j].product_name].start_frame,
     end_keyframe |-> keyframes_db[task[j].product_name].end_frame,
     job_id |-> j, s3_uri |-> ret[j].val]

\* variant: the record carries the short id used for the file names
VideoInfo_ShortId(j) ==
    [video_id |-> Short(j), product_name |-> task[j].product_name, prompt |-> task[j].prompt,
     status |-> "completed",
     final_video_path |-> FinalVideoPath(task[j].product_name, j),
     original_video_path |-> OutputPath(task[j].product_name, j),
     start_keyframe |-> task[j].start_frame_path,
     end_keyframe |-> task[j].end_frame_path,
     job_id |-> Short(j), s3_uri |-> ret[j].val]

\* the record lines 267-279 store
VideoInfo(j) ==
    [video_id |-> j, product_name |-> task[j].product_name, prompt |-> task[j].prompt,
     status |-> "completed",
     final_video_path |-> FinalVideoPath(task[j].product_name, j),
     original_video_path |-> OutputPath(task[j].product_name, j),
     start_keyframe |-> task[j].start_frame_path,
     end_keyframe |-> task[j].end_frame_path,
     job_id |-> j, s3_uri |-> ret[j].val]

\* variant: the record is stored, then the stretch raises and the except
\* clause fails the job
PublishVideo_ThenFails(j) ==
    /\ pc[j] = "publish"
    /\ videos_db' = Put(videos_db, j, VideoInfo(j))
    /\ jobs_db' = update_job(jobs_db, j, FAILED, 0, ErrorMessage("OSError"), "OSError")
    /\ disk' = save_database(jobs_db', videos_db', keyframes_db)
    /\ pc' = [pc EXCEPT ![j] = "done"]
    /\ ret' = [ret EXCEPT ![j] = NoResult]
    /\ response' = NoResponse
    /\ UNCHANGED <<keyframes_db, files, task, gen, uploads, deleted, monitor, batch>>

\* variant: building the record raises, and the except clause fails the job
PublishVideo_Raises(j) ==
    /\ pc[j] = "publish"
    /\ FailJob(j, "KeyError")
    /\ pc' = [pc EXCEPT ![j] = "done"]
    /\ ret' = [ret EXCEPT ![j] = NoResult]
    /\ response' = NoResponse
    /\ UNCHANGED <<videos_db, keyframes_db, files, task, gen, uploads, deleted, monitor, batch>>

\* lines 266-280: the video record is stored, in the same stretch as CompleteJob
PublishVideo(j) ==
    /\ pc[j] = "publish"
    /\ videos_db' = Put(videos_db, j, VideoInfo(j))
    /\ disk' = save_database(jobs_db, videos_db', keyframes_db)
    /\ pc' = [pc EXCEPT ![j] = "done"]
    /\ ret' = [ret EXCEPT ![j] = NoResult]
    /\ response' = NoResponse
    /\ UNCHANGED <<jobs_db, keyframes_db, files, task, gen, uploads, deleted, monitor, batch>>

\* ---- the monitoring loop of generate_video_with_keyframes, query by query

\* lines 174-175: the loop starts with last_status = None; remote is the
\* status the invocation has at the service
StartedMonitor(remote) == [NoMonitor EXCEPT !.pc = "query", !.remote = remote]

\* what get_async_invoke answers for an invocation in the given status
StatusResponses(status) ==
    CASE status = "Completed" ->
            { [status |-> status, s3Uri |-> GeneratedURI(p), failureMessage |-> None] :
                p \in Products }
      [] status = "Failed" ->
            { [status |-> status, s3Uri |-> None, failureMessage |-> f] :
                f \in FailureMessages }
      [] OTHER -> { [status |-> status, s3Uri |-> None, failureMessage |-> None] }

\* variant: the status is printed and last_status is never assigned
Observe_KeepsLastStatus(m, current_status) ==
    [m EXCEPT !.observed = Append(@, current_status),
              !.notified = IF current_status # m.last_status
                           THEN Append(@, current_status) ELSE @]

\* lines 180-185: the status is printed when it differs from last_status
Observe(m, current_status) ==
    [m EXCEPT !.observed = Append(@, current_status),
              !.notified = IF current_status # m.last_status
                           THEN Append(@, current_status) ELSE @,
              !.last_status = IF current_status # m.last_status
                              THEN current_status ELSE @]

\* lines 178-207 and 211-213: one query and what the loop does with the answer
MonitorQuery ==
    /\ monitor.pc = "query"
    /\ \E raises \in BOOLEAN, status_response \in StatusResponses(monitor.remote) :
        LET current_status == status_response.status
            seen == [Observe(monitor, current_status) EXCEPT
                        !.status_response = status_response]
        IN  /\ (raises \/ current_status \notin TerminalStatuses) =>
                    Len(monitor.observed) < MaxPolls
            /\ monitor' =
                 CASE raises ->
                        [monitor EXCEPT !.pc = "returned", !.result = Returned(None)]
                   [] current_status = "Completed" ->
                        [seen EXCEPT !.pc = "returned",
                                     !.result = Returned(status_response.s3Uri)]
                   [] current_status = "Failed" ->
                        [seen EXCEPT !.pc = "returned", !.result = Returned(None)]
                   [] OTHER -> [seen EXCEPT !.pc = "sleep"]
    /\ UNCHANGED <<jobs_db, videos_db, keyframes_db, disk, files, pc, task, ret, gen,
                   response, uploads, deleted, batch>>

\* variant: the loop gives up after its second sleep and returns None
MonitorSleep_GivesUp ==
    /\ monitor.pc = "sleep"
    /\ monitor' = [monitor EXCEPT !.pc = IF monitor.sleeps >= 1 THEN "returned" ELSE "query",
                                  !.sleeps = @ + 1,
                                  !.result = IF monitor.sleeps >= 1 THEN Returned(None) ELSE @]
    /\ UNCHANGED <<jobs_db, videos_db, keyframes_db, disk, files, pc, task, ret, gen,
                   response, uploads, deleted, batch>>

\* line 209: time.sleep(15), then the next query
MonitorSleep ==
    /\ monitor.pc = "sleep"
    /\ monitor' = [monitor EXCEPT !.pc = "query", !.sleeps = @ + 1]
    /\ UNCHANGED <<jobs_db, videos_db, keyframes_db, disk, files, pc, task, ret, gen,
                   response, uploads, deleted, batch>>

\* the invocation moves on at the service while the loop runs; "Completed"
\* and "Failed" are final there
RemoteAdvance ==
    /\ monitor.pc \in {"query", "sleep"}
    /\ monitor.remote \notin TerminalStatuses
    /\ \E status \in QueryStatuses \ {monitor.remote} :
        monitor' = [monitor EXCEPT !.remote = status]
    /\ UNCHANGED <<jobs_db, videos_db, keyframes_db, disk, files, pc, task, ret, gen,
                   response, uploads, deleted, batch>>

\* the owner of the loop gives it up: the task awaiting asyncio.to_thread is
\* cancelled or the server shuts down.  The worker thread is not told: the
\* function takes no token and the loop reads no flag.
MonitorAbandon ==
    /\ monitor.pc \in {"query", "sleep"}
    /\ ~monitor.abandoned
    /\ monitor' = [monitor EXCEPT !.abandoned = TRUE]
    /\ UNCHANGED <<jobs_db, videos_db, keyframes_db, disk, files, pc, task, ret, gen,
                   response, uploads, deleted, batch>>

\* ---- specification

Pipeline(j) ==
    \/ StartGeneration(j)
    \/ SubmitInvocation(j)
    \/ PollInvocation(j)
    \/ AfterGeneration(j)
    \/ download_from_s3(j)
    \/ AfterDownload(j)
    \/ process_video(j)
    \/ AfterProcessing(j)
    \/ upload_to_s3(j)
    \/ CompleteJob(j)
    \/ PublishVideo(j)

Next ==
    \/ \E p \in Products, has_end \in BOOLEAN : upload_keyframes(p, has_end)
    \/ \E p \in Products, prompt \in Prompts, j \in UUIDs : generate_video(p, prompt, j)
    \/ \E v \in UUIDs, fail_at \in 0 .. 2 : delete_video(v, fail_at)
    \/ \E j \in UUIDs : Pipeline(j)

Spec == Init /\ [][Next]_vars

\* a monitoring loop on its own, started on an invocation in any status
PollInit ==
    /\ jobs_db = Empty
    /\ videos_db = Empty
    /\ keyframes_db = Empty
    /\ disk = save_database(jobs_db, videos_db, keyframes_db)
    /\ files = Empty
    /\ pc = [j \in UUIDs |-> "none"]
    /\ task = [j \in UUIDs |-> NoTask]
    /\ ret = [j \in UUIDs |-> NoResult]
    /\ gen = [j \in UUIDs |-> NoGen]
    /\ response = NoResponse
    /\ uploads = 0
    /\ deleted = {}
    /\ monitor \in {StartedMonitor(status) : status \in QueryStatuses}
    /\ batch = NoBatch

PollNext ==
    \/ MonitorQuery
    \/ MonitorSleep
    \/ RemoteAdvance
    \/ MonitorAbandon

PollSpec == PollInit /\ [][PollNext]_vars

\* the worker thread that runs the loop is scheduled until the loop returns
FairPollSpec == PollSpec /\ WF_vars(MonitorQuery) /\ WF_vars(MonitorSleep)

\* ---- process_video step by step, run by several worker threads at once

\* job ids whose first eight characters differ pairwise: their videos have
\* file names of their own
ProcJobs == {j \in UUIDs : \A k \in UUIDs : k < j => Short(k) # Short(j)}

\* every job has been downloaded to its own input file and its task is about
\* to call process_video
ProcInit ==
    /\ jobs_db = Empty
    /\ videos_db = Empty
    /\ keyframes_db = Empty
    /\ disk = save_database(jobs_db, videos_db, keyframes_db)
    /\ task \in { t \in [UUIDs -> {NoTask} \cup
                        {[NoTask EXCEPT !.product_name = p] : p \in Products}] :
                    \A j \in UUIDs : t[j] # NoTask <=> j \in ProcJobs }
    /\ files = [path \in {OutputPath(task[j].product_name, j) : j \in ProcJobs} |->
                    CHOOSE j \in ProcJobs : path = OutputPath(task[j].product_name, j)]
    /\ pc = [j \in UUIDs |-> IF j \in ProcJobs THEN "process" ELSE "none"]
    /\ ret = [j \in UUIDs |-> NoResult]
    /\ gen = [j \in UUIDs |-> NoGen]
    /\ response = NoResponse
    /\ uploads = 0
    /\ deleted = {}
    /\ monitor = NoMonitor
    /\ batch = NoBatch

\* lines 24-40: the input is checked and the reversed copy written
ProcReverse(j) ==
    /\ pc[j] = "process"
    /\ LET input_file == OutputPath(task[j].product_name, j)
           reversed_file == ReversedPath(task[j].product_name, j)
       IN  IF input_file \notin DOMAIN files
           THEN /\ ret' = [ret EXCEPT ![j] =
                        Raised("FileNotFoundError", "Error: " \o input_file \o " not found")]
                /\ pc' = [pc EXCEPT ![j] = "processed"]
                /\ UNCHANGED files
           ELSE /\ files' = Put(files, reversed_file, files[input_file])
                /\ pc' = [pc EXCEPT ![j] = "reversed"]
                /\ UNCHANGED ret
    /\ UNCHANGED <<jobs_db, videos_db, keyframes_db, disk, task, gen, response, uploads,
                   deleted, monitor, batch>>

\* lines 42-46: list.txt is written with the names of this video's input and
\* reversed copy; its content is modelled by the job whose files it names
ProcWriteList(j) ==
    /\ pc[j] = "reversed"
    /\ files' = Put(files, ListFile, j)
    /\ pc' = [pc EXCEPT ![j] = "listed"]
    /\ UNCHANGED <<jobs_db, videos_db, keyframes_db, disk, task, ret, gen, response,
                   uploads, deleted, monitor, batch>>

\* lines 48-54: ffmpeg concatenates the files list.txt names; it fails (and
\* lines 76-78 exit) when list.txt or a file it names is missing
ProcConcat(j) ==
    /\ pc[j] = "listed"
    /\ LET combined_file == CombinedPath(task[j].product_name, j)
           readable ==
                /\ ListFile \in DOMAIN files
                /\ LET k == files[ListFile]
                   IN  /\ OutputPath(task[k].product_name, k) \in DOMAIN files
                       /\ ReversedPath(task[k].product_name, k) \in DOMAIN files
       IN  IF readable
           THEN LET k == files[ListFile]
                IN  /\ files' = Put(files, combined_file,
                                    files[OutputPath(task[k].product_name, k)])
                    /\ pc' = [pc EXCEPT ![j] = "combined"]
                    /\ UNCHANGED ret
           ELSE /\ ret' = [ret EXCEPT ![j] = FilterFailure]
                /\ pc' = [pc EXCEPT ![j] = "processed"]
                /\ UNCHANGED files
    /\ UNCHANGED <<jobs_db, videos_db, keyframes_db, disk, task, gen, response, uploads,
                   deleted, monitor, batch>>

\* lines 56-63: the final video is the combined one, sped up
ProcSpeed(j) ==
    /\ pc[j] = "combined"
    /\ files' = Put(files, FinalVideoPath(task[j].product_name, j),
                    files[CombinedPath(task[j].product_name, j)])
    /\ pc' = [pc EXCEPT ![j] = "sped"]
    /\ UNCHANGED <<jobs_db, videos_db, keyframes_db, disk, task, ret, gen, response,
                   uploads, deleted, monitor, batch>>

\* lines 65-74: the intermediate files are removed, list.txt among them
ProcCleanup(j) ==
    /\ pc[j] = "sped"
    /\ files' = Del(Del(Del(files, ReversedPath(task[j].product_name, j)),
                        CombinedPath(task[j].product_name, j)), ListFile)
    /\ ret' = [ret EXCEPT ![j] = Returned(None)]
    /\ pc' = [pc EXCEPT ![j] = "processed"]
    /\ UNCHANGED <<jobs_db, videos_db, keyframes_db, disk, task, gen, response, uploads,
                   deleted, monitor, batch>>

ProcNext ==
    \E j \in UUIDs :
        \/ ProcReverse(j)
        \/ ProcWriteList(j)
        \/ ProcConcat(j)
        \/ ProcSpeed(j)
        \/ ProcCleanup(j)

ProcSpec == ProcInit /\ [][ProcNext]_vars

\* ---- save_database in two steps (open, dump), called by the coroutines of
\* ---- the event loop: create_job in a request, update_job in a job execution

\* database.json after open(DB_FILE, "w") and before json.dump has written
Truncated == [truncated |-> TRUE]

\* The event loop runs one coroutine from one await to the next: no coroutine
\* is inside a stretch that mutates and saves.
SaveLoopFree == \A k \in UUIDs : pc[k] \notin {"mutated", "writing"}

\* the update a job execution makes next, by the state of its record
NextUpdate(status) ==
    CASE status = PENDING -> [status |-> GENERATING, progress |-> 10]
      [] status = GENERATING -> [status |-> DOWNLOADING, progress |-> 50]
      [] status = DOWNLOADING -> [status |-> PROCESSING, progress |-> 70]
      [] OTHER -> [status |-> COMPLETED, progress |-> 100]

SaveInit ==
    /\ jobs_db = Empty
    /\ videos_db = Empty
    /\ keyframes_db = Empty
    /\ disk = save_database(jobs_db, videos_db, keyframes_db)
    /\ files = Empty
    /\ pc = [j \in UUIDs |-> "none"]
    /\ task = [j \in UUIDs |-> NoTask]
    /\ ret = [j \in UUIDs |-> NoResult]
    /\ gen = [j \in UUIDs |-> NoGen]
    /\ response = NoResponse
    /\ uploads = 0
    /\ deleted = {}
    /\ monitor = NoMonitor
    /\ batch = NoBatch

\* create_job up to its call of save_database (lines 157-170), in the
\* coroutine of a generate_video request
SaveCreate(job_id, product_name) ==
    /\ SaveLoopFree
    /\ pc[job_id] = "none"
    /\ Cardinality(DOMAIN jobs_db) < MaxJobs
    /\ FreshUUID(jobs_db, job_id)
    /\ jobs_db' = Put(jobs_db, job_id, NewJob(job_id, product_name))
    /\ pc' = [pc EXCEPT ![job_id] = "mutated"]
    /\ UNCHANGED <<videos_db, keyframes_db, disk, files, task, ret, gen, response,
                   uploads, deleted, monitor, batch>>

\* the adapter a job execution awaits returns in its worker thread
SaveAdapterReturns(j) ==
    /\ pc[j] = "await"
    /\ pc' = [pc EXCEPT ![j] = "ready"]
    /\ UNCHANGED <<jobs_db, videos_db, keyframes_db, disk, files, task, ret, gen,
                   response, uploads, deleted, monitor, batch>>

\* variant: update_job is called from the worker thread, whatever the event
\* loop is running
SaveUpdate_FromThread(j) ==
    /\ pc[j] = "ready"
    /\ LET next == NextUpdate(jobs_db[j].status)
       IN  jobs_db' = update_job(jobs_db, j, next.status, next.progress, "message", None)
    /\ pc' = [pc EXCEPT ![j] = "mutated"]
    /\ UNCHANGED <<videos_db, keyframes_db, disk, files, task, ret, gen, response,
                   uploads, deleted, monitor, batch>>

\* update_job up to its call of save_database (lines 184-190), in the
\* coroutine of the job execution, which the event loop resumes
SaveUpdate(j) ==
    /\ SaveLoopFree
    /\ pc[j] = "ready"
    /\ LET next == NextUpdate(jobs_db[j].status)
       IN  jobs_db' = update_job(jobs_db, j, next.status, next.progress, "message", None)
    /\ pc' = [pc EXCEPT ![j] = "mutated"]
    /\ UNCHANGED <<videos_db, keyframes_db, disk, files, task, ret, gen, response,
                   uploads, deleted, monitor, batch>>

\* save_database, line 70: the file is opened for writing
SaveOpen(j) ==
    /\ pc[j] = "mutated"
    /\ disk' = Truncated
    /\ pc' = [pc EXCEPT ![j] = "writing"]
    /\ UNCHANGED <<jobs_db, videos_db, keyframes_db, files, task, ret, gen, response,
                   uploads, deleted, monitor, batch>>

\* save_database, line 71: the tables are dumped; the coroutine then goes on
\* to its next await, or ends
SaveDump(j) ==
    /\ pc[j] = "writing"
    /\ disk' = save_database(jobs_db, videos_db, keyframes_db)
    /\ pc' = [pc EXCEPT ![j] = IF jobs_db[j].status = COMPLETED THEN "done" ELSE "await"]
    /\ UNCHANGED <<jobs_db, videos_db, keyframes_db, files, task, ret, gen, response,
                   uploads, deleted, monitor, batch>>

SaveNext ==
    \/ \E j \in UUIDs, p \in Products : SaveCreate(j, p)
    \/ \E j \in UUIDs : SaveAdapterReturns(j)
    \/ \E j \in UUIDs : SaveUpdate(j)
    \/ \E j \in UUIDs : SaveOpen(j)
    \/ \E j \in UUIDs : SaveDump(j)

SaveSpec == SaveInit /\ [][SaveNext]_vars

\* ---- update_job on its own, called with ids the table has and ids it has not

\* database.json does not exist: nothing was saved yet, or no save succeeded
NoFile == [exists |-> FALSE]

\* the records a job table may hold for an id: as created, or updated once
JobRecords(job_id) ==
    UNION { { NewJob(job_id, p),
              [NewJob(job_id, p) EXCEPT !.status = GENERATING, !.progress = 10,
                    !.message = "Generating video with AWS Bedrock..."] } :
            p \in Products }

\* the job tables over the first MaxJobs ids
JobTables ==
    UNION { { db \in [ids -> UNION {JobRecords(j) : j \in ids}] :
                \A j \in ids : db[j] \in JobRecords(j) } :
            ids \in SUBSET (1 .. MaxJobs) }

StoreInit ==
    /\ jobs_db \in JobTables
    /\ videos_db = Empty
    /\ keyframes_db = Empty
    /\ disk \in {save_database(jobs_db, videos_db, keyframes_db), NoFile}
    /\ files = Empty
    /\ pc = [j \in UUIDs |-> "update"]
    /\ task = [j \in UUIDs |-> NoTask]
    /\ ret = [j \in UUIDs |-> NoResult]
    /\ gen = [j \in UUIDs |-> NoGen]
    /\ response = NoResponse
    /\ uploads = 0
    /\ deleted = {}
    /\ monitor = NoMonitor
    /\ batch = NoBatch

\* a call update_job(job_id, status, progress, message, error) that returns
CallUpdateJob(job_id, status, progress, message, error) ==
    /\ pc[job_id] = "update"
    /\ UpdateJob(jobs_db, job_id, status, progress, message, error)
    /\ pc' = [pc EXCEPT ![job_id] = "updated"]
    /\ UNCHANGED <<videos_db, keyframes_db, files, task, ret, gen, response, uploads,
                   deleted, monitor, batch>>

StoreNext ==
    \E job_id \in UUIDs, status \in {DOWNLOADING, FAILED}, progress \in {0, 50},
       error \in {None, "", "boom"} :
        CallUpdateJob(job_id, status, progress, "message", error)

StoreSpec == StoreInit /\ [][StoreNext]_vars

\* ---- crash and restart: the process dies at any point, and the startup
\* ---- event of the next process loads database.json

\* load_database (lines 76-95): the tables of the file; a file that does not
\* parse empties the tables (lines 91-95), a missing file leaves them empty
load_database(file) ==
    IF file \in {Truncated, NoFile}
    THEN [jobs |-> Empty, videos |-> Empty, keyframes |-> Empty]
    ELSE [jobs |-> file.jobs, videos |-> file.videos, keyframes |-> file.keyframes]

\* The process dies and is started again.  torn: it died inside the
\* save_database of a request or execution step it had begun (an upload of
\* keyframes can come in at any time), between open(DB_FILE, "w") and the end
\* of json.dump, which leaves a file that does not parse.  The tasks and
\* worker threads die with the process and nothing schedules an execution
\* at startup: the jobs loaded have no task.
Restart(torn) ==
    /\ disk' = IF torn THEN Truncated ELSE disk
    /\ LET data == load_database(disk')
       IN  /\ jobs_db' = data.jobs
           /\ videos_db' = data.videos
           /\ keyframes_db' = data.keyframes
    /\ pc' = [j \in UUIDs |-> IF j \in DOMAIN jobs_db' THEN "loaded" ELSE "none"]
    /\ task' = [j \in UUIDs |-> NoTask]
    /\ ret' = [j \in UUIDs |-> NoResult]
    /\ gen' = [j \in UUIDs |-> NoGen]
    /\ deleted' = deleted \cap DOMAIN jobs_db'
    /\ response' = Response("startup", 0)
    /\ UNCHANGED <<files, uploads, monitor, batch>>

\* keyframes were uploaded for both products, with and without end frame,
\* and the snapshot holds them; no job was submitted yet
RestartInit ==
    /\ jobs_db = Empty
    /\ videos_db = Empty
    /\ keyframes_db = Put(Put(Empty, "watch_01", KeyframeEntry(1, TRUE)),
                          "laptop", KeyframeEntry(2, FALSE))
    /\ disk = save_database(jobs_db, videos_db, keyframes_db)
    /\ files = Put(Put(Put(Empty, StartFramePath(1), 0), EndFramePath(1), 0),
                   StartFramePath(2), 0)
    /\ pc = [j \in UUIDs |-> "none"]
    /\ task = [j \in UUIDs |-> NoTask]
    /\ ret = [j \in UUIDs |-> NoResult]
    /\ gen = [j \in UUIDs |-> NoGen]
    /\ response = NoResponse
    /\ uploads = 2
    /\ deleted = {}
    /\ monitor = NoMonitor
    /\ batch = NoBatch

\* submits, deletes and job executions, with crashes at any point
RestartNext ==
    \/ \E p \in Products, prompt \in Prompts, j \in UUIDs : generate_video(p, prompt, j)
    \/ \E v \in UUIDs, fail_at \in 0 .. 2 : delete_video(v, fail_at)
    \/ \E j \in UUIDs : Pipeline(j)
    \/ \E torn \in BOOLEAN : Restart(torn)

RestartSpec == RestartInit /\ [][RestartNext]_vars

\* ---- batch_generate_with_keyframes (batch_generate_product_videos.py),
\* ---- config by config

\* the configs video_configs.json may list: each key is there or not, and
\* end_frame may be there with an empty value
BatchConfigs ==
    [product_name : Products \cup {Missing}, prompt : Prompts \cup {Missing},
     end_frame : {Missing, "", "end.jpg"}]

\* the lists of at most MaxConfigs configs
ConfigLists == UNION {[1 .. n -> BatchConfigs] : n \in 0 .. MaxConfigs}

\* lines 61-66 and 134-143: the keyframe files of a product
BatchStartFramePath(product_name) == "keyframes/" \o product_name \o "_start_frame.jpg"
BatchEndFramePath(product_name) == "keyframes/" \o product_name \o "_end_frame.jpg"
BatchKeyframePaths ==
    {BatchStartFramePath(p) : p \in Products} \cup {BatchEndFramePath(p) : p \in Products}

\* validate_config: the required keys, the start frame, and the end frame
\* when the config names one
validate_config(config, existing) ==
    CASE config.product_name = Missing ->
            [is_valid |-> FALSE, error_msg |-> "Missing required field: product_name"]
      [] config.prompt = Missing ->
            [is_valid |-> FALSE, error_msg |-> "Missing required field: prompt"]
      [] BatchStartFramePath(config.product_name) \notin existing ->
            [is_valid |-> FALSE, error_msg |-> "Start frame not found"]
      [] /\ config.end_frame \notin {Missing, ""}
         /\ BatchEndFramePath(config.product_name) \notin existing ->
            [is_valid |-> FALSE, error_msg |-> "End frame not found"]
      [] OTHER -> [is_valid |-> TRUE, error_msg |-> None]

\* the entry of lines 124-130 and 175-181
FailureEntry(product_name, error) ==
    [product_name |-> product_name, success |-> FALSE, error |-> error]

\* the entry of lines 158-166
ResultEntry(product_name, output_uri) ==
    [product_name |-> product_name, success |-> output_uri # None,
     output_uri |-> output_uri,
     start_frame |-> BatchStartFramePath(product_name),
     end_frame |-> BatchEndFramePath(product_name)]

\* a batch is called with a list of configs, with any of the keyframe files
\* in the keyframes directory
BatchInit ==
    /\ jobs_db = Empty
    /\ videos_db = Empty
    /\ keyframes_db = Empty
    /\ disk = save_database(jobs_db, videos_db, keyframes_db)
    /\ files \in {[path \in paths |-> 0] : paths \in SUBSET BatchKeyframePaths}
    /\ pc = [j \in UUIDs |-> "none"]
    /\ task = [j \in UUIDs |-> NoTask]
    /\ ret = [j \in UUIDs |-> NoResult]
    /\ gen = [j \in UUIDs |-> NoGen]
    /\ response = NoResponse
    /\ uploads = 0
    /\ deleted = {}
    /\ monitor = NoMonitor
    /\ batch \in {[NoBatch EXCEPT !.pc = "loop", !.configs = configs, !.i = 1] :
                    configs \in ConfigLists}

\* lines 104-131: the header line of the config is printed, which reads
\* config['product_name'] outside every try, and the config is validated; an
\* invalid config gets its entry and the loop goes on
BatchValidate ==
    /\ batch.pc = "loop"
    /\ batch.i <= Len(batch.configs)
    /\ LET config == batch.configs[batch.i]
           checked == validate_config(config, DOMAIN files)
       IN  batch' =
             CASE config.product_name = Missing ->
                    [batch EXCEPT !.pc = "raised", !.error = "KeyError: 'product_name'"]
               [] ~checked.is_valid ->
                    [batch EXCEPT
                        !.results = Append(@, FailureEntry(config.product_name,
                                                           checked.error_msg)),
                        !.i = @ + 1]
               [] OTHER ->
                    [batch EXCEPT !.pc = "generate", !.invoked = @ \cup {batch.i}]
    /\ UNCHANGED <<jobs_db, videos_db, keyframes_db, disk, files, pc, task, ret, gen,
                   response, uploads, deleted, monitor>>

\* lines 133-181: generate_video_with_keyframes is called with both keyframe
\* paths and returns a URI or None (always None when the end frame file is
\* missing), or an exception reaches the except clause of the batch; either
\* way the config gets its entry and the loop goes on
BatchGenerate ==
    /\ batch.pc = "generate"
    /\ LET config == batch.configs[batch.i]
       IN  \E outcome \in {"uri", "none", "raise"} :
            /\ BatchEndFramePath(config.product_name) \notin DOMAIN files => outcome # "uri"
            /\ batch' =
                 [batch EXCEPT
                    !.pc = "loop",
                    !.i = @ + 1,
                    !.raised = IF outcome = "raise" THEN @ \cup {batch.i} ELSE @,
                    !.results = Append(@,
                        CASE outcome = "uri" ->
                                ResultEntry(config.product_name,
                                            GeneratedURI(config.product_name))
                          [] outcome = "none" -> ResultEntry(config.product_name, None)
                          [] OTHER -> FailureEntry(config.product_name, ClientError))]
    /\ UNCHANGED <<jobs_db, videos_db, keyframes_db, disk, files, pc, task, ret, gen,
                   response, uploads, deleted, monitor>>

\* lines 183-212: the loop is over, the summary is printed and the results
\* are returned
BatchReturn ==
    /\ batch.pc = "loop"
    /\ batch.i > Len(batch.configs)
    /\ batch' = [batch EXCEPT !.pc = "returned"]
    /\ UNCHANGED <<jobs_db, videos_db, keyframes_db, disk, files, pc, task, ret, gen,
                   response, uploads, deleted, monitor>>

BatchNext ==
    \/ BatchValidate
    \/ BatchGenerate
    \/ BatchReturn

BatchSpec == BatchInit /\ [][BatchNext]_vars

\* ---- vocabulary of the claims

Terminal == {COMPLETED, FAILED}
NonTerminal == {PENDING, GENERATING, DOWNLOADING, PROCESSING}
ForwardStep ==
    { <<PENDING, GENERATING>>, <<GENERATING, DOWNLOADING>>,
      <<DOWNLOADING, PROCESSING>>, <<PROCESSING, COMPLETED>> }
\* the background execution of job j is over
Ended(j) == pc[j] \in {"done", "escaped"}
\* the task of job j moves in this step
Moves(j) == pc'[j] # pc[j]
\* the video records that name job j as their origin
ArtifactsOf(j) == {v \in DOMAIN videos_db : videos_db[v].job_id = j}

\* C1: the states recorded for a job follow PENDING, GENERATING, DOWNLOADING,
\* PROCESSING, COMPLETED one step at a time, with at most one final step to
\* FAILED from a non-terminal state; a new record starts PENDING and no record
\* ever holds a value outside these six (never UPLOADING).
C1_StateSequence ==
    [][\A j \in UUIDs :
        /\ j \in DOMAIN jobs_db =>
            /\ j \in DOMAIN jobs_db'
            /\ LET a == jobs_db[j].status
                   b == jobs_db'[j].status
               IN  \/ b = a
                   \/ <<a, b>> \in ForwardStep
                   \/ a \in NonTerminal /\ b = FAILED
        /\ j \in DOMAIN jobs_db' \ DOMAIN jobs_db => jobs_db'[j].status = PENDING
        /\ j \in DOMAIN jobs_db' => jobs_db'[j].status \in NonTerminal \cup Terminal]_vars

C1_Witness ==
    \E j, k \in DOMAIN jobs_db :
        /\ jobs_db[j].status = COMPLETED
        /\ jobs_db[k].status = FAILED

\* C2: every job whose background execution has ended is COMPLETED or FAILED
\* (the execution never ends leaving the job in a non-terminal state, so with
\* a generation that reports a terminal status every job becomes terminal).
C2_EndedJobIsTerminal ==
    \A j \in UUIDs : Ended(j) => jobs_db[j].status \in Terminal

\* C3: once a job is COMPLETED or FAILED, no step changes its record (state,
\* progress, message, error, video_url).
C3_TerminalRecordFrozen ==
    [][\A j \in DOMAIN jobs_db :
        jobs_db[j].status \in Terminal =>
            j \in DOMAIN jobs_db' /\ jobs_db'[j] = jobs_db[j]]_vars

C3_Witness ==
    \E j \in DOMAIN jobs_db :
        /\ jobs_db[j].status = COMPLETED
        /\ pc[j] = "done"
        /\ j \in deleted
        /\ \E k \in DOMAIN jobs_db : k # j /\ jobs_db[k].status = PROCESSING

\* C4: when post-processing fails, whatever it raised, the pipeline catches it:
\* the task ends with the job FAILED, progress 0 and an error text; nothing
\* escapes the background execution.
C4_ProcessingFailureCaught ==
    [][\A j \in UUIDs :
        (pc[j] = "processed" /\ ret[j].kind # "return" /\ Moves(j)) =>
            /\ pc'[j] = "done"
            /\ jobs_db'[j].status = FAILED
            /\ jobs_db'[j].progress = 0
            /\ Truthy(jobs_db'[j].error)]_vars

\* C5: when the archival upload fails, the job goes from PROCESSING to FAILED
\* with progress 0, its video_url stays unset and no video record is published.
C5_ArchiveFailureFailsJob ==
    [][\A j \in UUIDs :
        (pc[j] = "uploaded" /\ ret[j].val = None /\ Moves(j)) =>
            /\ pc'[j] = "done"
            /\ jobs_db'[j].status = FAILED
            /\ jobs_db'[j].progress = 0
            /\ jobs_db'[j].video_url = None
            /\ j \notin DOMAIN videos_db']_vars

\* C6: when the fetch of the generated media fails, the job goes from
\* DOWNLOADING straight to FAILED with progress 0 and its task ends: it never
\* enters PROCESSING and neither post-processing nor archive is invoked.
C6_FetchFailureFailsJob ==
    [][\A j \in UUIDs :
        (pc[j] = "downloaded" /\ ret[j].val = None /\ Moves(j)) =>
            /\ pc'[j] = "done"
            /\ jobs_db'[j].status = FAILED
            /\ jobs_db'[j].progress = 0]_vars

\* C7: when generation ends in failure, the job goes from GENERATING to FAILED
\* with progress 0 and its error text is the failure reason the operation
\* reported.
C7_GenerationFailureReason ==
    [][\A j \in UUIDs :
        (pc[j] = "generated" /\ ~Truthy(ret[j].val) /\ Moves(j)) =>
            /\ jobs_db[j].status = GENERATING
            /\ jobs_db'[j].status = FAILED
            /\ jobs_db'[j].progress = 0
            /\ jobs_db'[j].error = gen[j].failure]_vars

\* C8: a submit creates a job only for a product whose keyframe entry has a
\* start frame; every other submit answers with an error and leaves the job
\* table, the snapshot and the background tasks as they were.
C8_RejectedSubmitChangesNothing ==
    [][response'.op = "generate_video" =>
        IF DOMAIN jobs_db' # DOMAIN jobs_db
        THEN /\ response'.status = 200
             /\ \A j \in DOMAIN jobs_db' \ DOMAIN jobs_db :
                    LET p == jobs_db'[j].product_name
                    IN  /\ p \in DOMAIN keyframes_db
                        /\ keyframes_db[p].start_frame \notin {None, ""}
        ELSE /\ response'.status = 400
             /\ UNCHANGED <<jobs_db, disk, pc, task>>]_vars

\* a submit for the product whose entry has no start frame was just rejected,
\* with a job of another product in the table
C8_Witness ==
    /\ response = Response("generate_video", 400)
    /\ LegacyProduct \in DOMAIN keyframes_db
    /\ keyframes_db[LegacyProduct].start_frame = None
    /\ Products \ {LegacyProduct} \subseteq DOMAIN keyframes_db
    /\ jobs_db # Empty

\* C9: every FAILED job has a non-empty error and progress 0.
C9_FailedHasErrorAndZeroProgress ==
    \A j \in DOMAIN jobs_db :
        jobs_db[j].status = FAILED =>
            /\ jobs_db[j].error \notin {None, ""}
            /\ jobs_db[j].progress = 0

\* one job failed in generation and another in post-processing
C9_Witness ==
    \E j, k \in DOMAIN jobs_db :
        /\ jobs_db[j].status = FAILED /\ jobs_db[j].error = NoURIError
        /\ jobs_db[k].status = FAILED /\ jobs_db[k].error # NoURIError

\* C10 as stated: a job whose pipeline completed has no error, progress 100
\* and exactly one video record, keyed by its own id.
C10_CompletedHasOneArtifact ==
    \A j \in DOMAIN jobs_db :
        (pc[j] = "done" /\ jobs_db[j].status = COMPLETED) =>
            /\ jobs_db[j].error = None
            /\ jobs_db[j].progress = 100
            /\ ArtifactsOf(j) = {j}

\* C10 amended: a job whose pipeline completed has no error, progress 100 and
\* exactly one video record, keyed by its own id, until delete_video removes
\* that record; from then on it has none.
C10_CompletedHasOneArtifactUntilDeleted ==
    \A j \in DOMAIN jobs_db :
        (pc[j] = "done" /\ jobs_db[j].status = COMPLETED) =>
            /\ jobs_db[j].error = None
            /\ jobs_db[j].progress = 100
            /\ ArtifactsOf(j) = IF j \in deleted THEN {} ELSE {j}

C10_Witness ==
    \E j, k \in DOMAIN jobs_db :
        /\ pc[j] = "done" /\ jobs_db[j].status = COMPLETED /\ j \in deleted
        /\ pc[k] = "done" /\ jobs_db[k].status = COMPLETED /\ k \notin deleted

\* C11: the progress recorded for a job never decreases from one state to the
\* next as long as the job is not FAILED, and the values recorded are 0, 10,
\* 50, 70, 90 and 100.
C11_ProgressNonDecreasing ==
    [][\A j \in DOMAIN jobs_db :
        (j \in DOMAIN jobs_db' /\ jobs_db'[j].status # FAILED) =>
            /\ jobs_db'[j].progress >= jobs_db[j].progress
            /\ jobs_db'[j].progress \in {0, 10, 50, 70, 90, 100}]_vars

\* one job has gone through every progress value up to 100 while another
\* waits at 90 for its upload
C11_Witness ==
    \E j, k \in DOMAIN jobs_db :
        /\ jobs_db[j].status = COMPLETED /\ jobs_db[j].progress = 100
        /\ jobs_db[k].status = PROCESSING /\ jobs_db[k].progress = 90

\* C12: a job whose archive step returned a location (generation, fetch and
\* post-processing having succeeded before it) is next COMPLETED with progress
\* 100 and its result reference set, and its execution ends with a video
\* record under the job id that carries the product name and the prompt of
\* the submit and, as archive URI, the location the archive step returned.
C12_SuccessPublishesArtifact ==
    [][\A j \in UUIDs :
        /\ (pc[j] = "uploaded" /\ Truthy(ret[j].val) /\ Moves(j)) =>
            /\ pc'[j] = "publish"
            /\ jobs_db'[j].status = COMPLETED
            /\ jobs_db'[j].progress = 100
            /\ Truthy(jobs_db'[j].video_url)
        /\ (pc[j] = "publish" /\ Truthy(ret[j].val) /\ Moves(j)) =>
            /\ pc'[j] = "done"
            /\ jobs_db'[j].status = COMPLETED
            /\ jobs_db'[j].progress = 100
            /\ Truthy(jobs_db'[j].video_url)
            /\ j \in DOMAIN videos_db'
            /\ videos_db'[j].job_id = j
            /\ videos_db'[j].product_name = jobs_db[j].product_name
            /\ videos_db'[j].product_name = task[j].product_name
            /\ videos_db'[j].prompt = task[j].prompt
            /\ videos_db'[j].s3_uri = ret[j].val]_vars

\* the execution of a job has ended after its own download, post-processing
\* and upload succeeded, and its video record is stored
C12_Witness ==
    \E j \in DOMAIN jobs_db :
        /\ pc[j] = "done"
        /\ jobs_db[j].status = COMPLETED
        /\ j \in DOMAIN videos_db
        /\ videos_db[j].s3_uri = FinalS3URI(task[j].product_name, j)
        /\ OutputPath(task[j].product_name, j) \in DOMAIN files
        /\ files[OutputPath(task[j].product_name, j)] = j
        /\ FinalVideoPath(task[j].product_name, j) \in DOMAIN files
        /\ files[FinalVideoPath(task[j].product_name, j)] = j

\* C13: with jobs running concurrently, a step taken by the execution of job j
\* changes no record but that of job j: the state, progress, message, error
\* and video_url of every other job stay as they were, under every
\* interleaving.
C13_UpdateTouchesOwnRecordOnly ==
    [][\A j \in UUIDs :
        Moves(j) =>
            \A k \in DOMAIN jobs_db \ {j} :
                k \in DOMAIN jobs_db' /\ jobs_db'[k] = jobs_db[k]]_vars

\* two jobs for distinct products are in the middle of their pipelines, one
\* behind the other
C13_Witness ==
    \E j, k \in DOMAIN jobs_db :
        /\ jobs_db[j].product_name # jobs_db[k].product_name
        /\ jobs_db[j].status = PROCESSING /\ jobs_db[j].progress = 90
        /\ jobs_db[k].status = DOWNLOADING
        /\ pc[j] = "upload" /\ pc[k] = "download"

\* C14: a delete_video that answers 200 removes exactly the record of that
\* video from videos_db and from the snapshot, leaves neither its original nor
\* its final file on disk, and no delete_video changes any job record (the job
\* the video came from stays COMPLETED with its progress, message, error and
\* video_url).
C14_DeleteRemovesArtifactKeepsJob ==
    [][response'.op = "delete_video" =>
        /\ jobs_db' = jobs_db
        /\ response'.status = 200 =>
            \E v \in DOMAIN videos_db :
                /\ videos_db' = Del(videos_db, v)
                /\ disk'.videos = videos_db'
                /\ videos_db[v].original_video_path \notin DOMAIN files'
                /\ videos_db[v].final_video_path \notin DOMAIN files'
                /\ v \in DOMAIN jobs_db'
                /\ jobs_db'[v].status = COMPLETED]_vars

\* a video was just deleted: its record and files are gone and its job is
\* still COMPLETED with its result reference, while the video of another job
\* is still listed with its files
C14_Witness ==
    /\ response = Response("delete_video", 200)
    /\ \E j, k \in DOMAIN jobs_db :
        /\ j \in deleted /\ j \notin DOMAIN videos_db
        /\ jobs_db[j].status = COMPLETED /\ jobs_db[j].video_url = VideoURL(j)
        /\ OutputPath(jobs_db[j].product_name, j) \notin DOMAIN files
        /\ FinalVideoPath(jobs_db[j].product_name, j) \notin DOMAIN files
        /\ k \in DOMAIN videos_db
        /\ videos_db[k].final_video_path \in DOMAIN files

\* C15: in every reachable state, a job has a video_url only if it is
\* COMPLETED and an error only if it is FAILED, and no job has both.
C15_UrlAndErrorOnlyWhenTerminal ==
    \A j \in DOMAIN jobs_db :
        /\ jobs_db[j].video_url # None => jobs_db[j].status = COMPLETED
        /\ jobs_db[j].error # None => jobs_db[j].status = FAILED
        /\ ~(jobs_db[j].video_url # None /\ jobs_db[j].error # None)

\* one job is COMPLETED with its video_url and another FAILED with its error
C15_Witness ==
    \E j, k \in DOMAIN jobs_db :
        /\ jobs_db[j].status = COMPLETED /\ jobs_db[j].video_url = VideoURL(j)
        /\ jobs_db[k].status = FAILED /\ jobs_db[k].error # None

\* the number of changes in a sequence of statuses, the first one counted
Changes(seq) == Cardinality({i \in 1 .. Len(seq) : i = 1 \/ seq[i] # seq[i - 1]})

\* C16: the monitoring loop reports a status only when it differs from the
\* one observed before: at every point the number of notifications equals the
\* number of changes in the statuses polled so far (the first one counted),
\* and no two consecutive notifications carry the same status.
C16_NotifiesOnChangeOnly ==
    /\ Len(monitor.notified) = Changes(monitor.observed)
    /\ \A i \in 1 .. (Len(monitor.notified) - 1) :
            monitor.notified[i] # monitor.notified[i + 1]

\* a loop that polled the same status twice in a row, and was notified of a
\* status a second time after another one in between
C16_Witness ==
    /\ Len(monitor.notified) >= 3
    /\ Len(monitor.observed) > Len(monitor.notified)
    /\ monitor.notified[1] = monitor.notified[3]

\* C17: a query answered "Completed" makes the loop return the output
\* location the answer declares, and a query answered "Failed" makes it return
\* the failure reason the answer declares; in both cases the loop returns on
\* that query, without a sleep, and never queries again.
C17_TerminalQueryReturnsDeclared ==
    [][/\ (monitor.pc = "query" /\ Len(monitor'.observed) > Len(monitor.observed)) =>
            LET answer == monitor'.status_response
            IN  /\ answer.status = "Completed" =>
                    /\ monitor'.pc = "returned"
                    /\ monitor'.sleeps = monitor.sleeps
                    /\ monitor'.result = Returned(answer.s3Uri)
                /\ answer.status = "Failed" =>
                    /\ monitor'.pc = "returned"
                    /\ monitor'.sleeps = monitor.sleeps
                    /\ monitor'.result = Returned(answer.failureMessage)
       /\ monitor.pc = "returned" => monitor' = monitor]_vars

\* the loop returns in this step
MonitorReturns == monitor.pc # "returned" /\ monitor'.pc = "returned"
\* this step is a query that was answered with a status
MonitorAnswered == monitor.pc = "query" /\ Len(monitor'.observed) > Len(monitor.observed)
\* the status polled last
LastObserved(m) == m.observed[Len(m.observed)]

\* a query answered with a status other than "Completed" and "Failed" is
\* followed by a sleep and the sleep by the next query, with no result set
C18_KeepsPolling ==
    /\ (MonitorAnswered /\ LastObserved(monitor') \notin TerminalStatuses) =>
            /\ monitor'.pc = "sleep"
            /\ monitor'.result = NoResult
    /\ (monitor.pc = "sleep" /\ monitor'.pc # "sleep") =>
            /\ monitor'.pc = "query"
            /\ monitor'.sleeps = monitor.sleeps + 1
            /\ monitor'.result = NoResult

\* every query but the first comes after a sleep of its own
C18_SleepBetweenQueries ==
    monitor.pc = "query" => monitor.sleeps = Len(monitor.observed)

\* once the invocation is "Completed" or "Failed" at the service, the loop returns
C18_ReturnsOnceTerminal ==
    (monitor.remote \in TerminalStatuses) ~> (monitor.pc = "returned")

\* C18 as stated: the loop stops only on a query answered "Completed" or
\* "Failed"; while the answers are other statuses it keeps querying with a
\* sleep between queries and does not return; and once the invocation is
\* "Completed" or "Failed" the loop eventually returns.
C18_StopsOnlyOnTerminal ==
    /\ [][/\ MonitorReturns =>
                MonitorAnswered /\ LastObserved(monitor') \in TerminalStatuses
          /\ C18_KeepsPolling]_vars
    /\ []C18_SleepBetweenQueries
    /\ C18_ReturnsOnceTerminal

\* C18 amended: the loop stops only on a query answered "Completed" or
\* "Failed" or on a query that raised, which makes it return None; while the
\* answers are other statuses it keeps querying with a sleep between queries
\* and does not return; and once the invocation is "Completed" or "Failed"
\* the loop eventually returns.
C18_StopsOnTerminalOrError ==
    /\ [][/\ MonitorReturns =>
                \/ MonitorAnswered /\ LastObserved(monitor') \in TerminalStatuses
                \/ /\ monitor.pc = "query"
                   /\ monitor'.observed = monitor.observed
                   /\ monitor'.result = Returned(None)
          /\ C18_KeepsPolling]_vars
    /\ []C18_SleepBetweenQueries
    /\ C18_ReturnsOnceTerminal

\* a loop that slept after each of several non-terminal answers and then
\* returned None because its next query raised
C18_Witness ==
    /\ monitor.pc = "returned"
    /\ monitor.result = Returned(None)
    /\ Len(monitor.observed) >= 2
    /\ LastObserved(monitor) \notin TerminalStatuses
    /\ monitor.sleeps = Len(monitor.observed)

C20_UnknownIdUpdateIsNoOp ==
    [][\A j \in UUIDs :
        (pc[j] = "update" /\ Moves(j) /\ j \notin DOMAIN jobs_db) =>
            /\ pc'[j] = "updated"
            /\ jobs_db' = jobs_db
            /\ disk' = disk]_vars

\* update_job has returned for an id the table does not hold, with records
\* of other ids in the table and no database.json on disk
C20_Witness ==
    \E j \in UUIDs :
        /\ pc[j] = "updated"
        /\ j \notin DOMAIN jobs_db
        /\ jobs_db # Empty
        /\ disk = NoFile

\* C21: an upload of keyframes replaces the entry of its product wholesale:
\* afterwards the entry holds exactly the start path of this upload and its
\* end path, and no end path (None) when this upload has no end frame,
\* whatever the entry held before; no other entry changes.
C21_UploadReplacesEntry ==
    [][response'.op = "upload_keyframes" =>
        \E p \in DOMAIN keyframes_db' :
            /\ keyframes_db' = Put(keyframes_db, p, keyframes_db'[p])
            /\ keyframes_db'[p] =
                [start_frame |-> StartFramePath(uploads'),
                 end_frame |-> IF EndFramePath(uploads') \in DOMAIN files'
                               THEN EndFramePath(uploads') ELSE None]]_vars

\* the second upload, without end frame, went to the product the first
\* upload, with end frame, had gone to: the entry has no end frame
C21_Witness ==
    /\ uploads = 2
    /\ EndFramePath(1) \in DOMAIN files
    /\ \E p \in DOMAIN keyframes_db :
        /\ keyframes_db[p] = [start_frame |-> StartFramePath(2), end_frame |-> None]
        /\ \A q \in DOMAIN keyframes_db : keyframes_db[q].start_frame # StartFramePath(1)

\* C22: the keyframe paths of a job are those registered for its product when
\* it was submitted: they are fixed at the submit and no later step, a
\* re-upload for the same product included, changes them; the generation step
\* is called with them and the video record stores them.
C22_JobUsesKeyframesOfSubmit ==
    [][\A j \in UUIDs :
        /\ j \in DOMAIN jobs_db' \ DOMAIN jobs_db =>
            LET entry == keyframes_db[jobs_db'[j].product_name]
            IN  /\ task'[j].start_frame_path = entry.start_frame
                /\ task'[j].end_frame_path = entry.end_frame
        /\ j \in DOMAIN jobs_db => task'[j] = task[j]
        /\ (pc[j] = "generate" /\ Moves(j)) =>
            /\ gen'[j].start_frame_path = task[j].start_frame_path
            /\ gen'[j].end_frame_path = task[j].end_frame_path
        /\ pc[j] = "poll" =>
            /\ gen'[j].start_frame_path = gen[j].start_frame_path
            /\ gen'[j].end_frame_path = gen[j].end_frame_path
        /\ j \in DOMAIN videos_db' \ DOMAIN videos_db =>
            /\ videos_db'[j].start_keyframe = task[j].start_frame_path
            /\ videos_db'[j].end_keyframe = task[j].end_frame_path
        /\ j \in DOMAIN videos_db \cap DOMAIN videos_db' =>
            videos_db'[j] = videos_db[j]]_vars

\* keyframes were uploaded again for a product after a job for it was
\* submitted: one job is polling with the paths of the first upload, and the
\* video record of another holds the paths of the first upload
C22_Witness ==
    \E j, k \in DOMAIN jobs_db :
        /\ jobs_db[j].product_name = jobs_db[k].product_name
        /\ keyframes_db[jobs_db[j].product_name].start_frame = StartFramePath(2)
        /\ pc[j] = "poll"
        /\ gen[j].start_frame_path = StartFramePath(1)
        /\ k \in DOMAIN videos_db
        /\ videos_db[k].start_keyframe = StartFramePath(1)

\* C23: when several jobs are post-processed at the same time, every
\* post-processing that has ended has returned (none failed, each job's input
\* being there and processable) and has built the job's final video from the
\* job's own input file, under every interleaving.
C23_PostProcessingIsolated ==
    \A j \in ProcJobs :
        pc[j] = "processed" =>
            /\ ret[j] = Returned(None)
            /\ FinalVideoPath(task[j].product_name, j) \in DOMAIN files
            /\ files[FinalVideoPath(task[j].product_name, j)] = j

\* C24: whenever an adapter of a job is about to run, is running or has just
\* returned, the job record already shows the state and progress written
\* before that step: GENERATING/10 for the generation, DOWNLOADING/50 for the
\* fetch, PROCESSING/70 for the post-processing and PROCESSING/90 for the
\* archive upload.
C24_StepFollowsRecordedState ==
    \A j \in DOMAIN jobs_db :
        LET shows(status, progress) ==
                jobs_db[j].status = status /\ jobs_db[j].progress = progress
        IN  /\ pc[j] \in {"generate", "poll", "generated"} => shows(GENERATING, 10)
            /\ pc[j] \in {"download", "downloaded"} => shows(DOWNLOADING, 50)
            /\ pc[j] \in {"process", "processed"} => shows(PROCESSING, 70)
            /\ pc[j] \in {"upload", "uploaded"} => shows(PROCESSING, 90)

\* the archive upload of one job has returned while the fetch of another has
\* returned
C24_Witness ==
    \E j, k \in DOMAIN jobs_db :
        /\ pc[j] = "uploaded" /\ jobs_db[j].progress = 90
        /\ pc[k] = "downloaded" /\ jobs_db[k].progress = 50

\* how far the task of a job has got: the adapters are called at "generate"
\* (the submit), "download", "process" and "upload"
PcRank(position) ==
    CASE position = "none" -> 0
      [] position = "scheduled" -> 1
      [] position = "generate" -> 2
      [] position = "poll" -> 3
      [] position = "generated" -> 4
      [] position = "download" -> 5
      [] position = "downloaded" -> 6
      [] position = "process" -> 7
      [] position = "processed" -> 8
      [] position = "upload" -> 9
      [] position = "uploaded" -> 10
      [] position = "publish" -> 11
      [] OTHER -> 12

\* C25: no step of a job is retried: the task of a job only moves forward, so
\* the generation submit, the fetch, the post-processing and the archive
\* upload are each called at most once, and a task that has ended, failed or
\* not, never moves again.
C25_NoStepRetried ==
    [][\A j \in UUIDs :
        /\ Moves(j) => PcRank(pc'[j]) > PcRank(pc[j])
        /\ Ended(j) => pc'[j] = pc[j]]_vars

\* a job whose download failed went on to post-processing once and ended
\* FAILED there
C25_Witness ==
    \E j \in DOMAIN jobs_db :
        /\ pc[j] = "done"
        /\ jobs_db[j].status = FAILED
        /\ jobs_db[j].error =
                "Error: " \o OutputPath(jobs_db[j].product_name, j) \o " not found"

\* C26: in every reachable state, a video record with id j belongs to a job
\* with id j that is COMPLETED with its video_url set, and no FAILED job has a
\* video record.
C26_ArtifactOnlyOfCompletedJob ==
    /\ \A v \in DOMAIN videos_db :
        /\ v \in DOMAIN jobs_db
        /\ videos_db[v].job_id = v
        /\ jobs_db[v].status = COMPLETED
        /\ jobs_db[v].video_url = VideoURL(v)
    /\ \A j \in DOMAIN jobs_db :
        jobs_db[j].status = FAILED => ArtifactsOf(j) = {} /\ j \notin DOMAIN videos_db

\* both executions are over: one job is COMPLETED and has its video record,
\* the other is FAILED and has none
C26_Witness ==
    \E j, k \in DOMAIN jobs_db :
        /\ pc[j] = "done" /\ j \in DOMAIN videos_db
        /\ pc[k] = "done" /\ jobs_db[k].status = FAILED /\ k \notin DOMAIN videos_db

C28_SnapshotWritesSerialized ==
    /\ Cardinality({j \in UUIDs : pc[j] = "writing"}) <= 1
    /\ Cardinality({j \in UUIDs : pc[j] \in {"mutated", "writing"}}) <= 1
    /\ disk = Truncated <=> \E j \in UUIDs : pc[j] = "writing"
    /\ SaveLoopFree => disk = save_database(jobs_db, videos_db, keyframes_db)

\* one job execution is in the middle of its write while the adapter of
\* another has returned and its update waits for the event loop
C28_Witness ==
    \E j, k \in DOMAIN jobs_db :
        /\ pc[j] = "writing" /\ jobs_db[j].status = PROCESSING
        /\ pc[k] = "ready"
        /\ disk = Truncated

\* C29: a background execution is scheduled only in the step that creates the
\* job record, for the id created there; afterwards the record of a job
\* changes only in steps of that one execution, which is never scheduled
\* again: no job id ever has two executions.
C29_OneExecutionPerJob ==
    [][\A j \in UUIDs :
        /\ (pc'[j] = "scheduled" /\ pc[j] # "scheduled") =>
            /\ pc[j] = "none"
            /\ j \notin DOMAIN jobs_db
            /\ j \in DOMAIN jobs_db'
        /\ j \in DOMAIN jobs_db =>
            /\ j \in DOMAIN jobs_db'
            /\ pc[j] # "none"
            /\ jobs_db'[j] # jobs_db[j] => Moves(j) /\ pc'[j] \notin {"none", "scheduled"}
        /\ j \notin DOMAIN jobs_db => pc[j] = "none"]_vars

\* a second job for the same product runs under its own id while the
\* execution of the first is over
C29_Witness ==
    \E j, k \in DOMAIN jobs_db :
        /\ j # k
        /\ jobs_db[j].product_name = jobs_db[k].product_name
        /\ pc[j] = "done"
        /\ pc[k] = "poll"

\* C30: the monitoring loop can be cancelled: once its owner has abandoned
\* it, the loop starts no new query after the sleep it is in (a query already
\* under way may still be answered) and answers of a non-terminal status no
\* longer send it to sleep.
C30_AbandonedMonitorStops ==
    [][monitor.abandoned =>
        /\ monitor.pc = "sleep" => monitor'.pc # "query"
        /\ monitor.pc = "query" => monitor'.pc # "sleep"]_vars

\* the execution of job j has derived its local paths (lines 236-238, 248)
\* and is using them, or has stored them in its video record
UsesPaths(j) ==
    \/ pc[j] \in {"download", "downloaded", "process", "processed", "upload",
                  "uploaded", "publish"}
    \/ j \in DOMAIN videos_db

\* C31: the local paths of a job are built from its product name and the
\* first eight characters of its id, and any two distinct jobs that use their
\* paths, concurrent jobs for the same product included, have distinct
\* original paths and distinct final paths.
C31_DistinctJobsDistinctPaths ==
    \A j, k \in DOMAIN jobs_db :
        (j # k /\ UsesPaths(j) /\ UsesPaths(k)) =>
            /\ OutputPath(jobs_db[j].product_name, j) #
                    OutputPath(jobs_db[k].product_name, k)
            /\ FinalVideoPath(jobs_db[j].product_name, j) #
                    FinalVideoPath(jobs_db[k].product_name, k)

\* C32: every snapshot on disk in which a job is COMPLETED also holds the
\* video record of that job, unless the video was deleted afterwards; so the
\* tables loaded after a crash never hold a COMPLETED job whose video was
\* never recorded.
C32_CompletedSnapshotHasArtifact ==
    /\ disk # Truncated =>
        \A j \in DOMAIN disk.jobs :
            disk.jobs[j].status = COMPLETED => j \in DOMAIN disk.videos \/ j \in deleted
    /\ \A j \in DOMAIN jobs_db :
        (pc[j] = "loaded" /\ jobs_db[j].status = COMPLETED) =>
            j \in DOMAIN videos_db \/ j \in deleted

\* C33: a restart after a crash loads the jobs, videos and keyframes of the
\* last snapshot written and schedules no execution for the jobs it loads;
\* a job loaded as PENDING, GENERATING, DOWNLOADING or PROCESSING keeps that
\* state and progress, and stays without execution, in every later state.
C33_RestartLoadsLastSnapshot ==
    [][/\ (response'.op = "startup" /\ disk # Truncated) =>
            /\ jobs_db' = disk.jobs
            /\ videos_db' = disk.videos
            /\ keyframes_db' = disk.keyframes
            /\ \A j \in DOMAIN jobs_db' : pc'[j] = "loaded"
       /\ \A j \in DOMAIN jobs_db :
            (pc[j] = "loaded" /\ jobs_db[j].status \in NonTerminal) =>
                /\ j \in DOMAIN jobs_db'
                /\ jobs_db'[j].status = jobs_db[j].status
                /\ jobs_db'[j].progress = jobs_db[j].progress
                /\ pc'[j] = "loaded"]_vars

\* C34: a delete_video that reports an error (unknown id, or a failure while
\* removing a file) leaves the video table and the videos of the snapshot as
\* they were; a record leaves the table only in a delete that reports success.
C34_DeleteAllOrNothing ==
    [][response'.op = "delete_video" =>
        IF response'.status = 200
        THEN \E v \in DOMAIN videos_db : videos_db' = Del(videos_db, v)
        ELSE /\ videos_db' = videos_db
             /\ disk'.videos = videos_db]_vars

\* C35: for every list of configs, batch_generate_with_keyframes returns, and
\* returns one entry per config in the order of the configs: the entry of a
\* config that fails validation (a required key or a keyframe file is
\* missing) or whose generation raised has success false, the generation is
\* not called for an invalid config, and it is called for every valid one,
\* whatever came before it in the list.
C35_BatchOneEntryPerConfig ==
    /\ batch.pc # "raised"
    /\ batch.pc = "returned" =>
        /\ Len(batch.results) = Len(batch.configs)
        /\ \A n \in 1 .. Len(batch.configs) :
            LET config == batch.configs[n]
                is_valid == validate_config(config, DOMAIN files).is_valid
            IN  /\ batch.results[n].product_name = config.product_name
                /\ ~is_valid => ~batch.results[n].success
                /\ n \in batch.raised => ~batch.results[n].success
                /\ n \in batch.invoked <=> is_valid

====
